---- MODULE Spec2Model ----
(***************************************************************************)
(* Model of the IPMI exporter charm (src/src/charm.py): the host resources *)
(* it provisions and tears down, and its five lifecycle handlers, one      *)
(* action per statement that touches the host or the orchestration agent.  *)
(***************************************************************************)
EXTENDS Naturals, Sequences, FiniteSets, TLC

VARIABLES
    fs,          \* the fixed paths the charm touches
    acct,        \* the ipmi_exporter user and group
    pkg,         \* TRUE iff the freeipmi package is installed
    svc,         \* what the host supervisor knows of ipmi_exporter.service
    config,      \* the charm's listen-address option
    status,      \* self.unit.status
    version,     \* the workload version handed to set_workload_version
    handler,     \* the lifecycle hook being (or last) handled
    pc,          \* the statement the handler is at; "idle", "done", "raised"
    log,         \* the operations of the current handling, with their results
    stdout,      \* the output of this handling's `ipmi_exporter --version`
    onlyInstall, \* TRUE while the host has received nothing but Install events
    retry,       \* TRUE iff this handling repeats a hook that just raised
    cycle        \* "stop": the Stop that follows a completed Install on a fresh
                 \* host; "reinstall": the Install that follows that Stop once
                 \* it completed; "none" otherwise

host == <<fs, acct, pkg, svc>>
juju == <<config, status, version>>
ctl  == <<handler, pc, log, onlyInstall, retry, cycle>>
vars == <<fs, acct, pkg, svc, config, status, version,
          handler, pc, log, stdout, onlyInstall, retry, cycle>>

-----------------------------------------------------------------------------
(* Bounds and sample inputs *)

\* longest version-query output enumerated by SpecVersion
MaxLen == 6

\* characters of a version-query output: a digit, the dot, a letter, newline
Alphabet == {"1", ".", "x", "\n"}

\* listen-address values, as the pieces around the separators
Addresses == { <<"0.0.0.0", ":", "9290">>, <<"127.0.0.1", ":", "9999">> }

DefaultAddress == <<"0.0.0.0", ":", "9290">>

-----------------------------------------------------------------------------
(* Host state: a file that a copy writes is "absent", "partial" (a copy    *)
(* that failed midway left it) or "full"                                   *)

FreshFs ==
    [ bin          |-> "absent",   \* /usr/bin/ipmi_exporter
      archive      |-> FALSE,      \* /tmp/ipmi-exporter.tar.gz
      tmp_dir      |-> FALSE,      \* TemporaryDirectory(prefix="charmtmp")
      config_path  |-> FALSE,      \* /etc/ipmi_exporter/
      config_file  |-> "absent",   \* /etc/ipmi_exporter/ipmi_exporter.yaml
      sudoers      |-> "absent",   \* /etc/sudoers.d/ipmi_exporter
      service      |-> "absent",   \* /etc/systemd/system/ipmi_exporter.service
      sysconfig    |-> FALSE,      \* /etc/sysconfig/
      target       |-> <<>>,       \* /etc/sysconfig/ipmi_exporter, <<>> = absent
      varlib       |-> "absent",   \* /var/lib/ipmi_exporter: absent or its owner
      textfile_dir |-> "absent" ]  \* .../textfile_collector: absent or its owner

Init ==
    /\ fs = FreshFs
    /\ acct = [user |-> FALSE, group |-> FALSE]
    /\ pkg = FALSE
    /\ svc = [enabled |-> FALSE, active |-> FALSE]
    /\ config = DefaultAddress
    /\ status = <<"Unknown", "">>
    /\ version = <<>>
    /\ handler = "none"
    /\ pc = "idle"
    /\ log = <<>>
    /\ stdout = <<>>
    /\ onlyInstall = TRUE
    /\ retry = FALSE
    /\ cycle = "none"

-----------------------------------------------------------------------------
(* Control: a statement runs, records its result and moves on or raises *)

\* results of an operation: "ok"; "exists" / "missing", a failure caused by
\* the state of the host; "fault", a failure caused by the environment
Goto(op, res, next) ==
    /\ pc' = next
    /\ log' = Append(log, <<op, res>>)
    /\ UNCHANGED <<handler, onlyInstall, retry, cycle>>

\* an uncaught exception ends the hook
Raise(op, res) == Goto(op, res, "raised")

Idle == pc \in {"idle", "done", "raised"}

Last(s) == s[Len(s)]

\* no operation of the current handling failed for a reason outside the host
\* state (network, package manager, supervisor, a broken binary)
NoFault == \A i \in 1..Len(log) : log[i][2] # "fault"

\* the operation op of the current handling ended with result res
Did(op, res) == \E i \in 1..Len(log) : log[i] = <<op, res>>

\* the last hook ran to its end and nothing outside the host failed in it
Completed(h) == handler = h /\ pc = "done" /\ NoFault

\* where the event h stands in an Install, Stop, Install sequence
NextCycle(h) ==
    IF h = "stop" /\ onlyInstall /\ Completed("install") THEN "stop"
    ELSE IF h = "install" /\ cycle = "stop" /\ Completed("stop") THEN "reinstall"
    ELSE "none"

\* the start event observed by _on_stop
Entry_start_as_stop(h) ==
    CASE h = "install"        -> "i_status"
      [] h = "upgrade_charm"  -> "p_status"
      [] h = "config_changed" -> "r_sysconfig"
      [] h = "start"          -> "o_stop"
      [] h = "stop"           -> "o_stop"

\* the first statement of the observer of each event
Entry(h) ==
    CASE h = "install"        -> "i_status"
      [] h = "upgrade_charm"  -> "p_status"
      [] h = "config_changed" -> "r_sysconfig"
      [] h = "start"          -> "t_start"
      [] h = "stop"           -> "o_stop"

\* the framework emits an event to the observer registered for it
Observe(h) ==
    /\ Idle
    /\ pc' = Entry(h)
    /\ retry' = (pc = "raised" /\ handler = h)
    /\ handler' = h
    /\ log' = <<>>
    /\ stdout' = <<>>
    /\ onlyInstall' = (onlyInstall /\ h = "install")
    /\ cycle' = NextCycle(h)
    /\ UNCHANGED <<host, status, version>>

-----------------------------------------------------------------------------
(* _on_install and _install_ipmi_exporter: download, extract, copy *)

MaintenanceStatus(msg) == <<"Maintenance", msg>>
ActiveStatus(msg) == <<"Active", msg>>

\* self.unit.status = MaintenanceStatus("Installing ipmi-exporter")
_on_install_status ==
    /\ pc = "i_status"
    /\ status' = MaintenanceStatus("Installing ipmi-exporter")
    /\ Goto("status", "ok", "urlretrieve")
    /\ UNCHANGED <<host, config, version, stdout>>

\* request.urlretrieve(url, output): a failed download may have written
\* part of the archive already
urlretrieve ==
    /\ pc = "urlretrieve"
    /\ \/ /\ fs' = [fs EXCEPT !.archive = TRUE]
          /\ Goto("urlretrieve", "ok", "tarfile_open")
       \/ /\ \E written \in {fs.archive, TRUE} :
                 fs' = [fs EXCEPT !.archive = written]
          /\ Raise("urlretrieve", "fault")
    /\ UNCHANGED <<acct, pkg, svc, juju, stdout>>

\* tarfile.open(output, 'r'): raises on a file that is no archive
tarfile_open ==
    /\ pc = "tarfile_open"
    /\ \/ Goto("tarfile.open", "ok", "TemporaryDirectory")
       \/ Raise("tarfile.open", "fault")
    /\ UNCHANGED <<host, juju, stdout>>

\* with TemporaryDirectory(prefix="charmtmp") as tmp_dir: entering the block
TemporaryDirectory ==
    /\ pc = "TemporaryDirectory"
    /\ fs' = [fs EXCEPT !.tmp_dir = TRUE]
    /\ Goto("TemporaryDirectory", "ok", "extractall")
    /\ UNCHANGED <<acct, pkg, svc, juju, stdout>>

\* tar.extractall(path=tmp_dir): an exception leaves the with block, which
\* removes the directory
extractall ==
    /\ pc = "extractall"
    /\ \/ /\ Goto("extractall", "ok", "copy2")
          /\ UNCHANGED fs
       \/ /\ fs' = [fs EXCEPT !.tmp_dir = FALSE]
          /\ Raise("extractall", "fault")
    /\ UNCHANGED <<acct, pkg, svc, juju, stdout>>

\* shutil.copy2(source, "/usr/bin/ipmi_exporter"): raises when the archive has
\* no such member, before the destination is opened, or when the copy fails
\* midway; the exception leaves the with block
copy2 ==
    /\ pc = "copy2"
    /\ \/ /\ fs' = [fs EXCEPT !.bin = "full"]
          /\ Goto("copy2", "ok", "tmp_cleanup")
       \/ /\ \E left \in {fs.bin, "partial"} :
                 fs' = [fs EXCEPT !.bin = left, !.tmp_dir = FALSE]
          /\ Raise("copy2", "fault")
    /\ UNCHANGED <<acct, pkg, svc, juju, stdout>>

\* leaving the with block normally removes the directory
tmp_cleanup ==
    /\ pc = "tmp_cleanup"
    /\ fs' = [fs EXCEPT !.tmp_dir = FALSE]
    /\ Goto("TemporaryDirectory.cleanup", "ok", "output_unlink")
    /\ UNCHANGED <<acct, pkg, svc, juju, stdout>>

\* output.unlink() followed by _create_systemd_service_unit(), ahead of the
\* dependency, the account, the configuration and the grant
output_unlink_then_unit ==
    /\ pc = "output_unlink"
    /\ IF fs.archive
         THEN /\ fs' = [fs EXCEPT !.archive = FALSE]
              /\ Goto("unlink archive", "ok", "service_copyfile")
         ELSE /\ Raise("unlink archive", "missing")
              /\ UNCHANGED fs
    /\ UNCHANGED <<acct, pkg, svc, juju, stdout>>

\* output.unlink()
output_unlink ==
    /\ pc = "output_unlink"
    /\ IF fs.archive
         THEN /\ fs' = [fs EXCEPT !.archive = FALSE]
              /\ Goto("unlink archive", "ok", "dpkg")
         ELSE /\ Raise("unlink archive", "missing")
              /\ UNCHANGED fs
    /\ UNCHANGED <<acct, pkg, svc, juju, stdout>>

-----------------------------------------------------------------------------
(* _install_freeipmi *)

\* the two streams of `dpkg -l freeipmi`: the listing goes to stdout, the
\* complaint about an unknown package to stderr
dpkg_l ==
    [ stdout |-> IF pkg THEN {"ii  freeipmi"} ELSE {},
      stderr |-> IF pkg THEN {} ELSE {"no packages found"} ]

\* if "no packages found" not in result.stdout.decode().lower()
installer_needed(result) == "no packages found" \notin result.stdout

_install_freeipmi_check ==
    /\ pc = "dpkg"
    /\ Goto("dpkg -l", IF pkg THEN "ok" ELSE "missing",
            IF installer_needed(dpkg_l) THEN "apt_get" ELSE "groupadd")
    /\ UNCHANGED <<host, juju, stdout>>

\* subprocess.call(["apt-get", "install", "-y", "freeipmi"]): the exit status
\* is dropped
apt_get_install ==
    /\ pc = "apt_get"
    /\ \/ /\ pkg' = TRUE
          /\ Goto("apt-get install", "ok", "groupadd")
       \/ /\ UNCHANGED pkg
          /\ Goto("apt-get install", "fault", "groupadd")
    /\ UNCHANGED <<fs, acct, svc, juju, stdout>>

-----------------------------------------------------------------------------
(* _create_ipmi_exporter_user_group *)

\* subprocess.call(["groupadd", "ipmi_exporter"])
groupadd ==
    /\ pc = "groupadd"
    /\ IF acct.group
         THEN /\ Goto("groupadd", "exists", "useradd")
              /\ UNCHANGED acct
         ELSE \/ /\ acct' = [acct EXCEPT !.group = TRUE]
                 /\ Goto("groupadd", "ok", "useradd")
              \/ /\ UNCHANGED acct
                 /\ Goto("groupadd", "fault", "useradd")
    /\ UNCHANGED <<fs, pkg, svc, juju, stdout>>

\* subprocess.call(["useradd", "--system", "--no-create-home", "--gid",
\* "ipmi_exporter", "--shell", "/usr/sbin/nologin", "ipmi_exporter"])
useradd ==
    /\ pc = "useradd"
    /\ IF acct.user
         THEN /\ Goto("useradd", "exists", "config_mkdir")
              /\ UNCHANGED acct
         ELSE IF ~acct.group
         THEN /\ Goto("useradd", "missing", "config_mkdir")
              /\ UNCHANGED acct
         ELSE \/ /\ acct' = [acct EXCEPT !.user = TRUE]
                 /\ Goto("useradd", "ok", "config_mkdir")
              \/ /\ UNCHANGED acct
                 /\ Goto("useradd", "fault", "config_mkdir")
    /\ UNCHANGED <<fs, pkg, svc, juju, stdout>>

-----------------------------------------------------------------------------
(* _create_ipmi_exporter_configuration *)

\* config_path.mkdir() without the exists() test: mkdir raises FileExistsError
config_mkdir_unguarded ==
    /\ pc = "config_mkdir"
    /\ IF ~fs.config_path
         THEN /\ fs' = [fs EXCEPT !.config_path = TRUE]
              /\ Goto("mkdir /etc/ipmi_exporter", "ok", "config_copyfile")
         ELSE /\ UNCHANGED fs
              /\ Raise("mkdir /etc/ipmi_exporter", "exists")
    /\ UNCHANGED <<acct, pkg, svc, juju, stdout>>

\* if not config_path.exists(): config_path.mkdir()
config_mkdir ==
    /\ pc = "config_mkdir"
    /\ IF ~fs.config_path
         THEN /\ fs' = [fs EXCEPT !.config_path = TRUE]
              /\ Goto("mkdir /etc/ipmi_exporter", "ok", "config_copyfile")
         ELSE /\ UNCHANGED fs
              /\ Goto("mkdir /etc/ipmi_exporter", "skip", "config_copyfile")
    /\ UNCHANGED <<acct, pkg, svc, juju, stdout>>

\* shutil.copyfile(template_dir / config, "/etc/ipmi_exporter/ipmi_exporter.yaml")
config_copyfile ==
    /\ pc = "config_copyfile"
    /\ IF fs.config_path
         THEN \/ /\ fs' = [fs EXCEPT !.config_file = "full"]
                 /\ Goto("copyfile ipmi_exporter.yaml", "ok", "sudoers_open")
              \/ /\ \E left \in {fs.config_file, "partial"} :
                        fs' = [fs EXCEPT !.config_file = left]
                 /\ Raise("copyfile ipmi_exporter.yaml", "fault")
         ELSE /\ Raise("copyfile ipmi_exporter.yaml", "missing")
              /\ UNCHANGED fs
    /\ UNCHANGED <<acct, pkg, svc, juju, stdout>>

-----------------------------------------------------------------------------
(* _create_sudoers_file_for_ipmi_exporter *)

\* the helper commands the rule lists
allow_list ==
    { "/usr/sbin/ipmimonitoring", "/usr/sbin/ipmi-sensors", "/usr/sbin/ipmi-dcmi",
      "/usr/sbin/ipmi-raw", "/usr/sbin/bmc-info", "/usr/sbin/ipmi-chassis",
      "/usr/sbin/ipmi-sel" }

\* the rule f.write puts in the file: "ipmi_exporter ALL = NOPASSWD: ..."
sudoers_rule ==
    [ user |-> "ipmi_exporter", hosts |-> "ALL", nopasswd |-> TRUE,
      commands |-> allow_list ]

\* the commands a sudoers file in the given state grants to ipmi_exporter
granted(file) == IF file = "rule" THEN sudoers_rule.commands ELSE {}

\* open(sudoers, "w") creates the file or truncates it
sudoers_open ==
    /\ pc = "sudoers_open"
    /\ fs' = [fs EXCEPT !.sudoers = "empty"]
    /\ Goto("open sudoers", "ok", "sudoers_write")
    /\ UNCHANGED <<acct, pkg, svc, juju, stdout>>

\* f.write(...) and the close at the end of the with block
sudoers_write ==
    /\ pc = "sudoers_write"
    /\ \/ /\ fs' = [fs EXCEPT !.sudoers = "rule"]
          /\ Goto("write sudoers", "ok", "service_copyfile")
       \/ /\ UNCHANGED fs
          /\ Raise("write sudoers", "fault")
    /\ UNCHANGED <<acct, pkg, svc, juju, stdout>>

-----------------------------------------------------------------------------
(* _create_systemd_service_unit *)

\* shutil.copyfile(template_dir / service, "/etc/systemd/system/ipmi_exporter.service")
service_copyfile ==
    /\ pc = "service_copyfile"
    /\ \/ /\ fs' = [fs EXCEPT !.service = "full"]
          /\ Goto("copyfile ipmi_exporter.service", "ok", "daemon_reload")
       \/ /\ \E left \in {fs.service, "partial"} :
                 fs' = [fs EXCEPT !.service = left]
          /\ Raise("copyfile ipmi_exporter.service", "fault")
    /\ UNCHANGED <<acct, pkg, svc, juju, stdout>>

\* subprocess.call(["systemctl", "daemon-reload"])
daemon_reload ==
    /\ pc = "daemon_reload"
    /\ \/ Goto("systemctl daemon-reload", "ok", "enable")
       \/ Goto("systemctl daemon-reload", "fault", "enable")
    /\ UNCHANGED <<host, juju, stdout>>

\* subprocess.call(["systemctl", "enable", "ipmi_exporter.service"])
systemctl_enable ==
    /\ pc = "enable"
    /\ IF fs.service = "absent"
         THEN /\ Goto("systemctl enable", "missing", "r_sysconfig")
              /\ UNCHANGED svc
         ELSE \/ /\ fs.service = "full"
                 /\ svc' = [svc EXCEPT !.enabled = TRUE]
                 /\ Goto("systemctl enable", "ok", "r_sysconfig")
              \/ /\ UNCHANGED svc
                 /\ Goto("systemctl enable", "fault", "r_sysconfig")
    /\ UNCHANGED <<fs, acct, pkg, juju, stdout>>

-----------------------------------------------------------------------------
(* _render_sysconfig *)

\* template.render(context): the text of the sysconfig file, which carries the
\* listen address and nothing else that varies
render(context) == << <<"listen_address", context.listen_address>> >>

\* the file as a write that failed midway leaves it
truncated == << <<"listen_address">> >>

\* the statement after _render_sysconfig returns
AfterRender == IF handler = "install" THEN "version" ELSE "restart"

\* sysconfig.mkdir() without the exists() test: mkdir raises FileExistsError
sysconfig_mkdir_unguarded ==
    /\ pc = "r_sysconfig"
    /\ IF ~fs.sysconfig
         THEN /\ fs' = [fs EXCEPT !.sysconfig = TRUE]
              /\ Goto("mkdir /etc/sysconfig", "ok", "r_textfile")
         ELSE /\ UNCHANGED fs
              /\ Raise("mkdir /etc/sysconfig", "exists")
    /\ UNCHANGED <<acct, pkg, svc, juju, stdout>>

\* if not sysconfig.exists(): sysconfig.mkdir()
sysconfig_mkdir ==
    /\ pc = "r_sysconfig"
    /\ IF ~fs.sysconfig
         THEN /\ fs' = [fs EXCEPT !.sysconfig = TRUE]
              /\ Goto("mkdir /etc/sysconfig", "ok", "r_textfile")
         ELSE /\ UNCHANGED fs
              /\ Goto("mkdir /etc/sysconfig", "skip", "r_textfile")
    /\ UNCHANGED <<acct, pkg, svc, juju, stdout>>

\* if not textfile_dir.exists(): textfile_dir.mkdir(parents=True)
textfile_mkdir ==
    /\ pc = "r_textfile"
    /\ IF fs.textfile_dir = "absent"
         THEN /\ fs' = [fs EXCEPT
                          !.varlib = IF @ = "absent" THEN "root" ELSE @,
                          !.textfile_dir = "root"]
              /\ Goto("mkdir textfile_collector", "ok", "r_chown_varlib")
         ELSE /\ UNCHANGED fs
              /\ Goto("mkdir textfile_collector", "skip", "r_chown_varlib")
    /\ UNCHANGED <<acct, pkg, svc, juju, stdout>>

\* shutil.chown(varlib, user="ipmi_exporter", group="ipmi_exporter"): raises
\* LookupError for an unknown user or group
chown_varlib ==
    /\ pc = "r_chown_varlib"
    /\ IF acct.user /\ acct.group
         THEN /\ fs' = [fs EXCEPT !.varlib = "ipmi_exporter"]
              /\ Goto("chown varlib", "ok", "r_chown_textfile")
         ELSE /\ UNCHANGED fs
              /\ Raise("chown varlib", "missing")
    /\ UNCHANGED <<acct, pkg, svc, juju, stdout>>

\* shutil.chown(textfile_dir, user="ipmi_exporter", group="ipmi_exporter")
chown_textfile_dir ==
    /\ pc = "r_chown_textfile"
    /\ IF acct.user /\ acct.group
         THEN /\ fs' = [fs EXCEPT !.textfile_dir = "ipmi_exporter"]
              /\ Goto("chown textfile_collector", "ok", "r_unlink")
         ELSE /\ UNCHANGED fs
              /\ Raise("chown textfile_collector", "missing")
    /\ UNCHANGED <<acct, pkg, svc, juju, stdout>>

\* if target.exists(): return, keeping the file that is there
target_unlink_keep_existing ==
    /\ pc = "r_unlink"
    /\ IF fs.target # <<>>
         THEN Goto("unlink sysconfig", "skip", AfterRender)
         ELSE Goto("unlink sysconfig", "skip", "r_write")
    /\ UNCHANGED <<host, juju, stdout>>

\* if target.exists(): target.unlink()
target_unlink ==
    /\ pc = "r_unlink"
    /\ IF fs.target # <<>>
         THEN /\ fs' = [fs EXCEPT !.target = <<>>]
              /\ Goto("unlink sysconfig", "ok", "r_write")
         ELSE /\ UNCHANGED fs
              /\ Goto("unlink sysconfig", "skip", "r_write")
    /\ UNCHANGED <<acct, pkg, svc, juju, stdout>>

\* target.write_text(template.render(context)), the context holding the
\* listen-address option
target_write_text ==
    /\ pc = "r_write"
    /\ \/ /\ fs' = [fs EXCEPT !.target = render([listen_address |-> config])]
          /\ Goto("write sysconfig", "ok", AfterRender)
       \/ /\ \E left \in {fs.target, truncated} :
                 fs' = [fs EXCEPT !.target = left]
          /\ Raise("write sysconfig", "fault")
    /\ UNCHANGED <<acct, pkg, svc, juju, stdout>>

-----------------------------------------------------------------------------
(* _set_charm_version *)

IsDigit(ch) == ch = "1"

\* the regular expression's "." : any character but a newline
AnyChar == { ch \in Alphabet : ch # "\n" }

Run(s, lo, hi) == lo <= hi /\ \A k \in lo..hi : IsDigit(s[k])

\* the ways digits sep digits sep digits lies in s, sep a set of characters:
\* <<i, a, b, c>> with the digit runs s[i..a], s[a+2..b], s[b+2..c]
Matches(s, sep) ==
    { m \in (1..Len(s)) \X (1..Len(s)) \X (1..Len(s)) \X (1..Len(s)) :
        /\ m[2] + 2 <= m[3] /\ m[3] + 2 <= m[4]
        /\ Run(s, m[1], m[2]) /\ s[m[2] + 1] \in sep
        /\ Run(s, m[2] + 2, m[3]) /\ s[m[3] + 1] \in sep
        /\ Run(s, m[3] + 2, m[4]) }

\* the match a backtracking search reports: the leftmost start, then each
\* greedy digit run as long as the rest still matches
Preferred(m, n) ==
    \/ m[1] < n[1]
    \/ m[1] = n[1] /\ m[2] > n[2]
    \/ m[1] = n[1] /\ m[2] = n[2] /\ m[3] > n[3]
    \/ m[1] = n[1] /\ m[2] = n[2] /\ m[3] = n[3] /\ m[4] >= n[4]

\* re.search(pattern, output): the matched text, <<>> for None
Search(s, sep) ==
    LET M == Matches(s, sep)
    IN  IF M = {} THEN <<>>
        ELSE LET m == CHOOSE m \in M : \A n \in M : Preferred(m, n)
             IN  SubSeq(s, m[1], m[4])

\* re.search(r'([0-9]+.[0-9]+.[0-9]+)', output)
re_search(output) == Search(output, AnyChar)

\* outputs of the version query tried in Spec: a dotted triple, no digits
SampleOutputs == { <<"1", ".", "1", ".", "1">>, <<"x">> }

\* every output of at most MaxLen characters
AllOutputs == UNION { [1..n -> Alphabet] : n \in 0..MaxLen }

AfterVersion == IF handler = "install" THEN "i_active" ELSE "p_active"

\* sp.run(command, capture_output=True, text=True).stdout, re.search(...)
\* .group(0) and set_workload_version(version); sp.run raises when the binary
\* is missing or no executable, and .group raises on None
_set_charm_version(outputs) ==
    /\ pc = "version"
    /\ IF fs.bin # "full"
         THEN /\ Raise("ipmi_exporter --version", "missing")
              /\ UNCHANGED <<stdout, version>>
         ELSE \E output \in outputs :
                /\ stdout' = output
                /\ IF re_search(output) = <<>>
                     THEN /\ Raise("re.search", "fault")
                          /\ UNCHANGED version
                     ELSE /\ version' = re_search(output)
                          /\ Goto("set_workload_version", "ok", AfterVersion)
    /\ UNCHANGED <<host, config, status>>

\* self.unit.status = ActiveStatus("ipmi-exporter installed")
_on_install_active ==
    /\ pc = "i_active"
    /\ status' = ActiveStatus("ipmi-exporter installed")
    /\ Goto("status", "ok", "done")
    /\ UNCHANGED <<host, config, version, stdout>>

-----------------------------------------------------------------------------
(* _on_upgrade_charm *)

\* self.unit.status = MaintenanceStatus("Upgrading ipmi-exporter") followed by
\* a fresh download of the exporter
_on_upgrade_charm_status_download ==
    /\ pc = "p_status"
    /\ status' = MaintenanceStatus("Upgrading ipmi-exporter")
    /\ Goto("status", "ok", "urlretrieve")
    /\ UNCHANGED <<host, config, version, stdout>>

\* self.unit.status = MaintenanceStatus("Upgrading ipmi-exporter")
_on_upgrade_charm_status ==
    /\ pc = "p_status"
    /\ status' = MaintenanceStatus("Upgrading ipmi-exporter")
    /\ Goto("status", "ok", "version")
    /\ UNCHANGED <<host, config, version, stdout>>

\* self.unit.status = ActiveStatus("ipmi-exporter upgraded")
_on_upgrade_charm_active ==
    /\ pc = "p_active"
    /\ status' = ActiveStatus("ipmi-exporter upgraded")
    /\ Goto("status", "ok", "done")
    /\ UNCHANGED <<host, config, version, stdout>>

-----------------------------------------------------------------------------
(* _on_config_changed *)

\* str.split(sep) on a string given as its pieces and separators
split(s, sep) == SelectSeq(s, LAMBDA piece : piece # sep)

\* the port property: self.model.config.get("listen-address").split(":")[1]
port == split(config, ":")[2]

\* COSAgentProvider(..., metrics_endpoints=[{"port": 9290, "path": "/metrics"}])
metrics_endpoints == [port |-> 9290, path |-> "/metrics"]

\* subprocess.call(["systemctl", "restart", "ipmi_exporter"])
systemctl_restart ==
    /\ pc = "restart"
    /\ IF fs.service = "absent"
         THEN /\ Goto("systemctl restart", "missing", "set_host_port")
              /\ UNCHANGED svc
         ELSE \/ /\ fs.service = "full"
                 /\ svc' = [svc EXCEPT !.active = TRUE]
                 /\ Goto("systemctl restart", "ok", "set_host_port")
              \/ /\ UNCHANGED svc
                 /\ Goto("systemctl restart", "fault", "set_host_port")
    /\ UNCHANGED <<fs, acct, pkg, juju, stdout>>

\* self.prometheus.set_host_port(): hands the port property to the relation
set_host_port ==
    /\ pc = "set_host_port"
    /\ Goto("set_host_port", port, "done")
    /\ UNCHANGED <<host, juju, stdout>>

-----------------------------------------------------------------------------
(* _on_start *)

\* subprocess.call(["systemctl", "start", "ipmi_exporter"])
systemctl_start ==
    /\ pc = "t_start"
    /\ IF fs.service = "absent"
         THEN /\ Goto("systemctl start", "missing", "t_active")
              /\ UNCHANGED svc
         ELSE \/ /\ fs.service = "full"
                 /\ svc' = [svc EXCEPT !.active = TRUE]
                 /\ Goto("systemctl start", "ok", "t_active")
              \/ /\ UNCHANGED svc
                 /\ Goto("systemctl start", "fault", "t_active")
    /\ UNCHANGED <<fs, acct, pkg, juju, stdout>>

\* self.unit.status = ActiveStatus("ipmi-exporter started")
_on_start_active ==
    /\ pc = "t_active"
    /\ status' = ActiveStatus("ipmi-exporter started")
    /\ Goto("status", "ok", "done")
    /\ UNCHANGED <<host, config, version, stdout>>

-----------------------------------------------------------------------------
(* _on_stop and _uninstall_ipmi_exporter *)

\* subprocess.call(["systemctl", "stop", "ipmi_exporter"]): the supervisor
\* knows the unit while its file exists or the service still runs
systemctl_stop ==
    /\ pc = "o_stop"
    /\ IF fs.service = "absent" /\ ~svc.active
         THEN /\ Goto("systemctl stop", "missing", "o_disable")
              /\ UNCHANGED svc
         ELSE \/ /\ svc' = [svc EXCEPT !.active = FALSE]
                 /\ Goto("systemctl stop", "ok", "o_disable")
              \/ /\ UNCHANGED svc
                 /\ Goto("systemctl stop", "fault", "o_disable")
    /\ UNCHANGED <<fs, acct, pkg, juju, stdout>>

\* subprocess.call(["systemctl", "disable", "ipmi_exporter"])
systemctl_disable ==
    /\ pc = "o_disable"
    /\ IF fs.service = "absent"
         THEN /\ Goto("systemctl disable", "missing", "x_bin")
              /\ UNCHANGED svc
         ELSE \/ /\ fs.service = "full"
                 /\ svc' = [svc EXCEPT !.enabled = FALSE]
                 /\ Goto("systemctl disable", "ok", "x_bin")
              \/ /\ UNCHANGED svc
                 /\ Goto("systemctl disable", "fault", "x_bin")
    /\ UNCHANGED <<fs, acct, pkg, juju, stdout>>

\* Path(...).unlink(): raises FileNotFoundError on a missing path
unlink(label, op, exists, removed, next) ==
    /\ pc = label
    /\ IF exists
         THEN /\ fs' = removed
              /\ Goto(op, "ok", next)
         ELSE /\ UNCHANGED fs
              /\ Raise(op, "missing")
    /\ UNCHANGED <<acct, pkg, svc, juju, stdout>>

\* Path("/usr/bin/ipmi_exporter").unlink()
unlink_bin ==
    unlink("x_bin", "unlink ipmi_exporter", fs.bin # "absent",
           [fs EXCEPT !.bin = "absent"], "x_service")

\* Path("/etc/systemd/system/ipmi_exporter.service").unlink()
unlink_service ==
    unlink("x_service", "unlink ipmi_exporter.service", fs.service # "absent",
           [fs EXCEPT !.service = "absent"], "x_target")

\* Path("/etc/sysconfig/ipmi_exporter").unlink()
unlink_sysconfig ==
    unlink("x_target", "unlink sysconfig", fs.target # <<>>,
           [fs EXCEPT !.target = <<>>], "x_config")

\* Path("/etc/ipmi_exporter/ipmi_exporter.yaml").unlink()
unlink_config ==
    unlink("x_config", "unlink ipmi_exporter.yaml", fs.config_file # "absent",
           [fs EXCEPT !.config_file = "absent"], "x_rmtree")

\* shutil.rmtree(Path("/var/lib/ipmi_exporter/")): raises on a missing path
rmtree_varlib ==
    unlink("x_rmtree", "rmtree varlib", fs.varlib # "absent",
           [fs EXCEPT !.varlib = "absent", !.textfile_dir = "absent"],
           "x_userdel")

\* subprocess.call(["userdel", "ipmi_exporter"])
userdel ==
    /\ pc = "x_userdel"
    /\ IF ~acct.user
         THEN /\ Goto("userdel", "missing", "x_groupdel")
              /\ UNCHANGED acct
         ELSE \/ /\ acct' = [acct EXCEPT !.user = FALSE]
                 /\ Goto("userdel", "ok", "x_groupdel")
              \/ /\ UNCHANGED acct
                 /\ Goto("userdel", "fault", "x_groupdel")
    /\ UNCHANGED <<fs, pkg, svc, juju, stdout>>

\* subprocess.call(["groupdel", "ipmi_exporter"]): refused while a user has
\* the group as its primary group
groupdel ==
    /\ pc = "x_groupdel"
    /\ IF ~acct.group
         THEN /\ Goto("groupdel", "missing", "done")
              /\ UNCHANGED acct
         ELSE IF acct.user
         THEN /\ Goto("groupdel", "exists", "done")
              /\ UNCHANGED acct
         ELSE \/ /\ acct' = [acct EXCEPT !.group = FALSE]
                 /\ Goto("groupdel", "ok", "done")
              \/ /\ UNCHANGED acct
                 /\ Goto("groupdel", "fault", "done")
    /\ UNCHANGED <<fs, pkg, svc, juju, stdout>>

-----------------------------------------------------------------------------
(* The hooks the charm observes *)

\* self.framework.observe(self.on.install, self._on_install)
on_install == Observe("install") /\ UNCHANGED config

\* self.framework.observe(self.on.upgrade_charm, self._on_upgrade_charm)
on_upgrade_charm == Observe("upgrade_charm") /\ UNCHANGED config

\* self.framework.observe(self.on.config_changed, self._on_config_changed):
\* the option holds whatever value the operator has set
on_config_changed ==
    /\ Idle
    /\ \E address \in Addresses :
         /\ config' = address
         /\ log' = << <<"listen-address", IF address = config THEN "same" ELSE "changed">> >>
    /\ pc' = Entry("config_changed")
    /\ retry' = (pc = "raised" /\ handler = "config_changed")
    /\ handler' = "config_changed"
    /\ stdout' = <<>>
    /\ onlyInstall' = FALSE
    /\ cycle' = "none"
    /\ UNCHANGED <<host, status, version>>

\* self.framework.observe(self.on.start, self._on_start)
on_start == Observe("start") /\ UNCHANGED config

\* self.framework.observe(self.on.stop, self._on_stop)
on_stop == Observe("stop") /\ UNCHANGED config

_install_ipmi_exporter ==
    \/ urlretrieve \/ tarfile_open \/ TemporaryDirectory \/ extractall
    \/ copy2 \/ tmp_cleanup \/ output_unlink

_install_freeipmi == _install_freeipmi_check \/ apt_get_install

_create_ipmi_exporter_user_group == groupadd \/ useradd

_create_ipmi_exporter_configuration == config_mkdir \/ config_copyfile

_create_sudoers_file_for_ipmi_exporter == sudoers_open \/ sudoers_write

_create_systemd_service_unit ==
    service_copyfile \/ daemon_reload \/ systemctl_enable

_render_sysconfig ==
    \/ sysconfig_mkdir \/ textfile_mkdir \/ chown_varlib
    \/ chown_textfile_dir \/ target_unlink \/ target_write_text

_uninstall_ipmi_exporter ==
    \/ unlink_bin \/ unlink_service \/ unlink_sysconfig \/ unlink_config
    \/ rmtree_varlib \/ userdel \/ groupdel

_on_install ==
    \/ _on_install_status \/ _install_ipmi_exporter \/ _install_freeipmi
    \/ _create_ipmi_exporter_user_group \/ _create_ipmi_exporter_configuration
    \/ _create_sudoers_file_for_ipmi_exporter \/ _create_systemd_service_unit
    \/ _on_install_active

_on_upgrade_charm == _on_upgrade_charm_status \/ _on_upgrade_charm_active

_on_config_changed == systemctl_restart \/ set_host_port

_on_start == systemctl_start \/ _on_start_active

_on_stop == systemctl_stop \/ systemctl_disable \/ _uninstall_ipmi_exporter

Next ==
    \/ on_install \/ on_upgrade_charm \/ on_config_changed \/ on_start
    \/ on_stop
    \/ _on_install \/ _on_upgrade_charm \/ _on_config_changed \/ _on_start
    \/ _on_stop
    \/ _render_sysconfig
    \/ _set_charm_version(SampleOutputs)

Spec == Init /\ [][Next]_vars

-----------------------------------------------------------------------------
(* Version reporting over every short output of the version query: a host  *)
(* on which Install has completed receives one upgrade-charm event         *)

InstalledFs ==
    [ bin          |-> "full",
      archive      |-> FALSE,
      tmp_dir      |-> FALSE,
      config_path  |-> TRUE,
      config_file  |-> "full",
      sudoers      |-> "rule",
      service      |-> "full",
      sysconfig    |-> TRUE,
      target       |-> render([listen_address |-> config]),
      varlib       |-> "ipmi_exporter",
      textfile_dir |-> "ipmi_exporter" ]

InstalledHost ==
    /\ fs = InstalledFs
    /\ acct = [user |-> TRUE, group |-> TRUE]
    /\ pkg = TRUE
    /\ svc = [enabled |-> TRUE, active |-> FALSE]

InitVersion ==
    /\ config = DefaultAddress
    /\ InstalledHost
    /\ status = ActiveStatus("ipmi-exporter installed")
    /\ version = <<"1", ".", "1", ".", "1">>
    /\ handler = "install"
    /\ pc = "done"
    /\ log = <<>>
    /\ stdout = <<"1", ".", "1", ".", "1">>
    /\ onlyInstall = TRUE
    /\ retry = FALSE
    /\ cycle = "none"

NextVersion ==
    \/ handler = "install" /\ on_upgrade_charm
    \/ _on_upgrade_charm
    \/ _set_charm_version(AllOutputs)

SpecVersion == InitVersion /\ [][NextVersion]_vars

-----------------------------------------------------------------------------
(* Properties *)

\* neither the exporter binary nor its service unit is on the host
Uninstalled == fs.bin = "absent" /\ fs.service = "absent"

\* none of the resources that Install provisions exists
AllRemoved ==
    /\ Uninstalled /\ fs.target = <<>> /\ fs.config_file = "absent"
    /\ fs.varlib = "absent" /\ fs.sudoers = "absent"
    /\ ~acct.user /\ ~acct.group

\* C1: handleStop completes successfully from every host state, whichever
\* of its resources are already absent.
C1_StopAlwaysSucceeds == handler = "stop" => pc # "raised"

\* C2: an Install on the state left behind by failed Installs on a fresh
\* host, when nothing outside the host fails during it, does not raise and
\* ends with the host exactly as an uninterrupted Install leaves it and with
\* status Active.
C2_RetryReconciles ==
    (onlyInstall /\ handler = "install" /\ NoFault) =>
        /\ pc # "raised"
        /\ pc = "done" =>
             /\ InstalledHost
             /\ status = ActiveStatus("ipmi-exporter installed")

\* a retried Install has completed after an earlier Install raised
C2_Witness ==
    /\ onlyInstall /\ retry /\ handler = "install" /\ pc = "done" /\ NoFault
    /\ InstalledHost
    /\ Did("groupadd", "exists")

\* C3: when the download/extract/copy part of Install has returned or has
\* failed while opening the archive, extracting it or copying the binary,
\* neither the downloaded archive nor the scratch directory exists.
C3_NoTemporaryFilesSurvive ==
    ( /\ handler = "install" /\ log # <<>>
      /\ \/ pc = "dpkg"
         \/ pc = "raised" /\ Last(log)[1] \in {"tarfile.open", "extractall", "copy2"} )
    => (~fs.archive /\ ~fs.tmp_dir)

\* C4: the dependency step invokes the package installer if and only if the
\* freeipmi package is absent.
C4_InstallerIffAbsent ==
    (log # <<>> /\ Last(log)[1] = "dpkg -l") => ((pc = "apt_get") <=> ~pkg)

\* C5: in every host state the service unit file exists only if the exporter
\* binary exists.
C5_UnitImpliesBinary == fs.service # "absent" => fs.bin # "absent"

\* C6 as claimed: the provisioning sequence starts only on an Uninstalled
\* host, and only Stop returns the host to Uninstalled.
C6_InstallOnlyFromUninstalled ==
    [][ /\ (pc' = "urlretrieve" => Uninstalled')
        /\ (~Uninstalled /\ Uninstalled' => handler = "stop") ]_vars

\* C6 as amended: an Install event runs the provisioning sequence in whatever
\* state the host is in, and no event other than Stop ever returns the host
\* to Uninstalled.
C6_OnlyStopUninstalls ==
    [][ /\ (pc = "i_status" => pc' = "urlretrieve")
        /\ (~Uninstalled /\ Uninstalled' => handler = "stop") ]_vars

\* Stop has just removed the binary and the service unit that an earlier
\* Install had put on the host
C6_Witness ==
    /\ handler = "stop" /\ pc = "x_target" /\ Uninstalled
    /\ Did("unlink ipmi_exporter", "ok")
    /\ Did("unlink ipmi_exporter.service", "ok")

\* C7: after handleStop completes on an installed host every provisioned
\* resource is gone, the sudoers file included, and stop and disable were
\* issued, in that order, before the deletions.
C7_StopRemovesEverything ==
    ( /\ handler = "stop" /\ pc = "done" /\ NoFault
      /\ status = ActiveStatus("ipmi-exporter installed") ) =>
        /\ AllRemoved
        /\ log[1][1] = "systemctl stop" /\ log[2][1] = "systemctl disable"

\* the integer a port text denotes
int(text) == CASE text = "9290" -> 9290 [] text = "9999" -> 9999

\* C8: after a ConfigChanged that changed listen-address, the endpoint
\* published to the metrics consumer carries the new port, the sysconfig file
\* holds the new address and restart was issued exactly once.
C8_EndpointFollowsListenAddress ==
    (handler = "config_changed" /\ pc = "done" /\ Did("listen-address", "changed")) =>
        /\ metrics_endpoints.port = int(port)
        /\ fs.target = render([listen_address |-> config])
        /\ Cardinality({i \in 1..Len(log) : log[i][1] = "systemctl restart"}) = 1

\* a literal dot
LiteralDot == {"."}

\* the first substring of the form digits '.' digits '.' digits, <<>> if none
DottedTriple(output) == Search(output, LiteralDot)

\* C9: reportVersion surfaces exactly the first dotted triple of the
\* version-query output, and fails without setting a version when the output
\* has none.
C9_ExactDottedTriple ==
    (log # <<>> /\ Last(log)[1] \in {"re.search", "set_workload_version"}) =>
        IF DottedTriple(stdout) = <<>>
          THEN pc = "raised"
          ELSE pc # "raised" /\ version = DottedTriple(stdout)

SupervisorCommands ==
    { "systemctl start", "systemctl stop", "systemctl restart",
      "systemctl enable", "systemctl disable", "systemctl daemon-reload" }

\* C10: a handler in which a supervisor command exited non-zero does not end
\* normally; in particular handleStart does not report Active after a failed
\* start.
C10_SupervisorFailureReported ==
    pc = "done" =>
        \A i \in 1..Len(log) :
            log[i][1] \in SupervisorCommands => log[i][2] = "ok"

\* C11: in handleInstall, once a provisioning step has failed for a reason
\* other than 'already exists', no later step runs and the handler ends in
\* failure.
C11_FailedStepAborts ==
    handler = "install" =>
        \A i \in 1..Len(log) :
            log[i][2] = "fault" => (i = Len(log) /\ pc = "raised")

\* C12: a reader of /etc/sudoers.d/ipmi_exporter sees no file or a complete
\* rule, never an empty or partially written one.
C12_GrantWrittenAtomically == fs.sudoers \in {"absent", "rule"}

\* C13: the Install that follows a completed Install and a completed Stop,
\* with the same configuration and nothing outside the host failing, does
\* not raise and ends with the host exactly as an Install on a fresh host
\* leaves it, the unit enabled and stopped, status Active.
C13_ReinstallAfterStop ==
    (cycle = "reinstall" /\ NoFault) =>
        /\ pc # "raised"
        /\ pc = "done" =>
             /\ InstalledHost
             /\ status = ActiveStatus("ipmi-exporter installed")

\* the Install after Install and Stop has completed, over the directories
\* and the sudoers file that Stop left behind
C13_Witness ==
    /\ cycle = "reinstall" /\ Completed("install") /\ InstalledHost
    /\ Did("mkdir /etc/ipmi_exporter", "skip") /\ Did("groupadd", "ok")

\* the operations of each provisioning step of Install, in the claimed order
InstallSteps ==
    << {"urlretrieve", "tarfile.open", "TemporaryDirectory", "extractall",
        "copy2", "TemporaryDirectory.cleanup", "unlink archive"},
       {"dpkg -l", "apt-get install"},
       {"groupadd", "useradd"},
       {"mkdir /etc/ipmi_exporter", "copyfile ipmi_exporter.yaml"},
       {"open sudoers", "write sudoers"},
       {"copyfile ipmi_exporter.service", "systemctl daemon-reload",
        "systemctl enable"},
       {"mkdir /etc/sysconfig", "mkdir textfile_collector", "chown varlib",
        "chown textfile_collector", "unlink sysconfig", "write sysconfig"},
       {"ipmi_exporter --version", "re.search", "set_workload_version"} >>

\* the step the i-th operation of the handling belongs to; 0 and 9 for the
\* status reports before and after the steps
StepAt(i) ==
    IF log[i][1] = "status"
      THEN IF i = 1 THEN 0 ELSE 9
      ELSE CHOOSE k \in 1..Len(InstallSteps) : log[i][1] \in InstallSteps[k]

\* C14: handleInstall runs its steps in the order binary, dependency,
\* account, configuration, grant, unit registration, sysconfig, version, each
\* after the previous one; status is Maintenance from the first step on and
\* Active only after the version report; the unit is registered only after
\* the binary install and the account creation have been performed.
C14_InstallOrder ==
    handler = "install" =>
        /\ Len(log) > 0 => StepAt(1) = 0
        /\ \A i \in 1..(Len(log) - 1) : StepAt(i + 1) - StepAt(i) \in {0, 1}
        /\ (pc \notin {"i_status", "done"}) =>
               status = MaintenanceStatus("Installing ipmi-exporter")
        /\ pc = "done" =>
               /\ status = ActiveStatus("ipmi-exporter installed")
               /\ Did("set_workload_version", "ok")
        /\ (\E i \in 1..Len(log) : StepAt(i) = 6) =>
               /\ Did("copy2", "ok") /\ Did("unlink archive", "ok")
               /\ \E i \in 1..Len(log) : log[i][1] = "groupadd"
               /\ \E i \in 1..Len(log) : log[i][1] = "useradd"

\* an Install has run all its steps and reported Active
C14_Witness ==
    /\ Completed("install") /\ Did("systemctl enable", "ok")
    /\ Did("useradd", "ok") /\ Did("write sysconfig", "ok")
    /\ status = ActiveStatus("ipmi-exporter installed")

\* C15: _create_ipmi_exporter_user_group raises nothing and changes nothing
\* where group and user exist already, and a groupadd or useradd that fails
\* for any other reason than "already exists" is not suppressed: it ends the
\* handling.
C15_OnlyExistsSuppressed ==
    handler = "install" =>
        /\ (Did("groupadd", "exists") /\ Did("useradd", "exists")) =>
               (acct.group /\ acct.user)
        /\ \A i \in 1..Len(log) :
               (log[i][1] \in {"groupadd", "useradd"}
                    /\ log[i][2] \notin {"ok", "exists"}) =>
                   (i = Len(log) /\ pc = "raised")

\* C16: once _render_sysconfig has written, /etc/sysconfig/ipmi_exporter is
\* exactly the rendering of the current listen-address, whatever it held
\* before; a ConfigChanged that got past the render has written the file,
\* also when the option value is the one it had.
C16_RenderReplaces ==
    /\ (handler \in {"install", "config_changed"} /\ Did("write sysconfig", "ok")) =>
           fs.target = render([listen_address |-> config])
    /\ (handler = "config_changed" /\ pc \in {"restart", "set_host_port", "done"}) =>
           /\ Did("write sysconfig", "ok")
           /\ fs.target = render([listen_address |-> config])

\* a ConfigChanged with a new listen-address has replaced an existing file
C16_Witness ==
    /\ Completed("config_changed")
    /\ Did("listen-address", "changed") /\ Did("unlink sysconfig", "ok")
    /\ fs.target = render([listen_address |-> config])

\* C17: whenever /etc/sudoers.d/ipmi_exporter exists, the commands it grants
\* to ipmi_exporter are exactly the helper allow-list, with no ALL entry.
C17_GrantIsAllowList ==
    fs.sudoers # "absent" =>
        /\ granted(fs.sudoers) = allow_list
        /\ "ALL" \notin granted(fs.sudoers)

\* C18: from its dispatch to its end an UpgradeCharm changes nothing on the
\* host (binary, files, account, service unit) nor the configuration; it only
\* sets the status and queries, parses and reports the version (no download,
\* no restart); when it ends, the reported version is a function of the
\* binary's output alone, so a second UpgradeCharm with the same output
\* reports the same version.
C18_UpgradeOnlyReportsVersion ==
    [][ handler' = "upgrade_charm" =>
          /\ UNCHANGED <<host, config>>
          /\ \A i \in 1..Len(log') :
                 log'[i][1] \in {"status", "ipmi_exporter --version",
                                 "re.search", "set_workload_version"}
          /\ pc' = "done" =>
                 /\ version' = re_search(stdout')
                 /\ status' = ActiveStatus("ipmi-exporter upgraded")
      ]_vars

\* an UpgradeCharm on an installed host has re-reported the version
C18_Witness ==
    /\ Completed("upgrade_charm") /\ Did("set_workload_version", "ok")
    /\ fs.bin = "full" /\ fs.service = "full" /\ acct.user
    /\ version = re_search(stdout)
    /\ status = ActiveStatus("ipmi-exporter upgraded")

\* the state of ipmi_exporter.service as the host supervisor sees it
ServiceUnitState ==
    IF svc.active THEN "Running"
    ELSE IF fs.service # "full" THEN "Unregistered"
    ELSE IF svc.enabled THEN "Registered-Enabled-Stopped"
    ELSE "Registered-Disabled"

\* C19: whenever systemctl start or systemctl restart is about to be issued,
\* the ipmi_exporter account exists and the unit is Registered-Enabled-Stopped
\* or Running.
C19_StartOnlyWhenRegistered ==
    pc \in {"t_start", "restart"} =>
        /\ acct.user
        /\ ServiceUnitState \in {"Registered-Enabled-Stopped", "Running"}

\* C20: status Active is reported only on an installed host: the binary and
\* the service unit file are present.
C20_ActiveImpliesInstalled ==
    status[1] = "Active" => (fs.bin = "full" /\ fs.service = "full")

====
